---- MODULE Spec2Model ----
(***************************************************************************)
(* Model of app/app.py: the module-level secrets bootstrap that copies     *)
(* `export KEY="VALUE"` lines of /vault/secrets/flask.txt into os.environ, *)
(* followed by a Flask server with the routes / and /health.               *)
(*                                                                         *)
(* A Python str is modelled as a sequence of one-character strings, so     *)
(* that startswith, replace, strip and split are computed character by     *)
(* character the way CPython computes them.                                *)
(***************************************************************************)
EXTENDS Integers, Sequences, FiniteSets, TLC

\* Largest number of lines of a secrets file the model enumerates.
MaxLines == 2

VARIABLES
    pc,         \* where the process is: start, open, reading, import, serving, crashed
    error,      \* the unhandled exception that ended the process, or "none"
    fs,         \* the secrets file on disk: [exists, content]
    found,      \* what os.path.exists returned
    lines,      \* the lines the open file yields
    i,          \* the index in lines of the next line of the for loop
    environ,    \* os.environ
    inherited,  \* os.environ as the process inherited it
    checks,     \* how many times os.path.exists ran
    reads,      \* how many times the file was opened
    resp,       \* the response to the latest request
    helloBodies \* the distinct bodies GET / has returned so far

vars == <<pc, error, fs, found, lines, i, environ, inherited, checks, reads, resp, helloBodies>>

----------------------------------------------------------------------------
\* String literals of app.py.

\* line 8: the literal 'export ' (startswith and replace)
EXPORT == <<"e", "x", "p", "o", "r", "t", " ">>
\* line 17: os.getenv('ENV', 'dev')
ENV == <<"E", "N", "V">>
DEV == <<"d", "e", "v">>
\* line 17: os.getenv('DB_PASSWORD', 'not set')
DB_PASSWORD == <<"D", "B", "_", "P", "A", "S", "S", "W", "O", "R", "D">>
NOT_SET == <<"n", "o", "t", " ", "s", "e", "t">>
\* line 17: the literal parts of the f-string
HELLO_ENVIRONMENT == <<"H", "e", "l", "l", "o", " ", "f", "r", "o", "m", " ", "F", "l", "a", "s", "k", "!", " ", "E", "n", "v", "i", "r", "o", "n", "m", "e", "n", "t", ":", " ">>
HELLO_DB == <<" ", "|", " ", "D", "B", ":", " ">>
\* line 9: the separator of split('=', 1); line 10: the characters of strip('"')
EQUALS == "="
QUOTE == "\""
\* str.strip() without arguments strips whitespace
WHITESPACE == {" ", "\t", "\n"}

----------------------------------------------------------------------------
\* The str methods lines 8-10 call.

\* s.startswith(prefix)
startswith(s, prefix) ==
    /\ Len(s) >= Len(prefix)
    /\ \A k \in 1..Len(prefix) : s[k] = prefix[k]

\* s[n:]
Drop(s, n) == SubSeq(s, n + 1, Len(s))

\* s.replace(old, new): every non-overlapping occurrence, scanning from the left
RECURSIVE replace(_, _, _)
replace(s, old, new) ==
    IF s = <<>> THEN <<>>
    ELSE IF startswith(s, old) THEN new \o replace(Drop(s, Len(old)), old, new)
    ELSE <<Head(s)>> \o replace(Tail(s), old, new)

RECURSIVE lstrip(_, _)
lstrip(s, chars) ==
    IF s # <<>> /\ Head(s) \in chars THEN lstrip(Tail(s), chars) ELSE s

RECURSIVE rstrip(_, _)
rstrip(s, chars) ==
    IF s # <<>> /\ s[Len(s)] \in chars THEN rstrip(SubSeq(s, 1, Len(s) - 1), chars) ELSE s

\* s.strip(chars); s.strip() is strip(s, WHITESPACE)
strip(s, chars) == rstrip(lstrip(s, chars), chars)

\* s.find(c) + 1 for a one-character c: the first position of c, 0 when absent
find(s, c) ==
    IF \E k \in 1..Len(s) : s[k] = c
    THEN CHOOSE k \in 1..Len(s) : s[k] = c /\ \A m \in 1..(k - 1) : s[m] # c
    ELSE 0

\* Variant: str.partition, which yields an empty second part when sep is absent.
split1_Partition(s, sep) ==
    IF \E k \in 1..Len(s) : s[k] = sep
    THEN LET k == CHOOSE k \in 1..Len(s) : s[k] = sep /\ \A m \in 1..(k - 1) : s[m] # sep
         IN  <<SubSeq(s, 1, k - 1), SubSeq(s, k + 1, Len(s))>>
    ELSE <<s, <<>>>>

\* s.split(sep, 1): two parts around the first sep, or the one part [s]
split1(s, sep) ==
    LET k == find(s, sep) IN
    IF k = 0 THEN <<s>> ELSE <<SubSeq(s, 1, k - 1), Drop(s, k)>>

\* Variant: the line is stripped before the test (line.strip().startswith('export ')).
IsExportLine_Stripped(line) == startswith(strip(line, WHITESPACE), EXPORT)

\* line 8: line.startswith('export ')
IsExportLine(line) == startswith(line, EXPORT)

\* line 9: line.replace('export ', '').strip().split('=', 1)
ParseLine(line) == split1(strip(replace(line, EXPORT, <<>>), WHITESPACE), EQUALS)

\* line 10: val.strip('"')
Unquote(val) == strip(val, {QUOTE})

----------------------------------------------------------------------------
\* os.environ

EmptyEnv == [k \in {} |-> <<>>]

\* Variant: os.environ.setdefault(key, val), which keeps an existing value.
setitem_SetDefault(env, key, val) == IF key \in DOMAIN env THEN env ELSE (key :> val) @@ env

\* os.environ[key] = val
setitem(env, key, val) == (key :> val) @@ env

\* putenv rejects an empty variable name (OSError: Invalid argument)
putenv_ok(key) == key # <<>>

\* Variant: os.getenv(key) or default, which also replaces an empty value.
getenv_OrDefault(env, key, default) ==
    IF key \in DOMAIN env /\ env[key] # <<>> THEN env[key] ELSE default

\* os.getenv(key, default)
getenv(env, key, default) == IF key \in DOMAIN env THEN env[key] ELSE default

----------------------------------------------------------------------------
\* The inputs: the environment the process inherits and the secrets file.

PROD == <<"p", "r", "o", "d">>
OLD == <<"o", "l", "d">>
SECRET123 == <<"s", "e", "c", "r", "e", "t", "1", "2", "3">>

InheritedEnvs ==
    { EmptyEnv,
      ENV :> PROD,
      DB_PASSWORD :> OLD,
      (ENV :> PROD) @@ (DB_PASSWORD :> OLD) }

Quoted(v) == <<QUOTE>> \o v \o <<QUOTE>>
Assign(k, v) == k \o <<EQUALS>> \o v

\* Line contents without the line terminator.
Bodies ==
    { EXPORT \o Assign(DB_PASSWORD, Quoted(SECRET123)),
      EXPORT \o Assign(DB_PASSWORD, Quoted(EXPORT \o <<"x">>)),
      EXPORT \o Assign(DB_PASSWORD, Quoted(<<"a", "=", "b">>)),
      EXPORT \o Assign(DB_PASSWORD, Quoted(<<" ", "p", " ">>)),
      EXPORT \o DB_PASSWORD \o <<" ", "=", " ">> \o Quoted(<<"s">>),
      EXPORT \o Assign(ENV, Quoted(PROD)),
      EXPORT \o Assign(ENV, <<"q", "a">>),
      EXPORT \o Assign(ENV, <<>>),
      EXPORT \o EXPORT \o Assign(ENV, Quoted(<<"x">>)),
      EXPORT \o Assign(<<>>, Quoted(<<"v">>)),
      EXPORT \o ENV,
      EXPORT,
      Assign(DB_PASSWORD, Quoted(<<"p", "l", "a", "i", "n">>)),
      <<" ">> \o EXPORT \o Assign(ENV, Quoted(<<"s", "t", "g">>)),
      <<"e", "x", "p", "o", "r", "t", "\t">> \o Assign(ENV, Quoted(<<"t", "a", "b">>)),
      <<"#", " ", "k", "e", "y", "s">>,
      <<>> }

\* What iterating the file yields: each line keeps its "\n"; only the last
\* line of a file can lack one.
TerminatedLines == { b \o <<"\n">> : b \in Bodies }
UnterminatedLines ==
    { EXPORT \o Assign(DB_PASSWORD, Quoted(SECRET123)),
      EXPORT \o ENV }
Lines == TerminatedLines \cup UnterminatedLines

FileContents ==
    { c \in UNION { [1..n -> Lines] : n \in 0..MaxLines } :
        \A j \in 1..(Len(c) - 1) : c[j] \in TerminatedLines }

NoFile == [exists |-> FALSE, content |-> <<>>]
Files == { NoFile } \cup { [exists |-> TRUE, content |-> c] : c \in FileContents }

\* What the secrets file can become while the process runs.
Rewrites ==
    { NoFile,
      [exists |-> TRUE,
       content |-> << EXPORT \o Assign(DB_PASSWORD, Quoted(<<"n", "e", "w">>)) \o <<"\n">> >>] }

----------------------------------------------------------------------------
\* Responses.

NoResponse == [route |-> "", status |-> 0, text |-> <<>>, json |-> {}]

\* line 17: the f-string hello() returns (status 200 by Flask's default)
HelloBody(env) ==
    HELLO_ENVIRONMENT \o getenv(env, ENV, DEV) \o HELLO_DB \o getenv(env, DB_PASSWORD, NOT_SET)

\* Variant: a health check that reports whether the secret was loaded.
HealthResponse_NeedsSecret ==
    [route |-> "/health",
     status |-> IF DB_PASSWORD \in DOMAIN environ THEN 200 ELSE 503,
     text |-> <<>>,
     json |-> {<<"status", IF DB_PASSWORD \in DOMAIN environ THEN "ok" ELSE "degraded">>}]

\* line 21: return {"status": "ok"}, 200
HealthResponse ==
    [route |-> "/health", status |-> 200, text |-> <<>>, json |-> {<<"status", "ok">>}]

----------------------------------------------------------------------------
Init ==
    /\ pc = "start"
    /\ error = "none"
    /\ fs \in Files
    /\ found = FALSE
    /\ lines = <<>>
    /\ i = 1
    /\ inherited \in InheritedEnvs
    /\ environ = inherited
    /\ checks = 0
    /\ reads = 0
    /\ resp = NoResponse
    /\ helloBodies = {}

\* An unhandled exception at module level ends the process.
Crash(exc) ==
    /\ pc' = "crashed"
    /\ error' = exc

\* Variant: the condition inverted (if not os.path.exists(secrets_file)).
ExistsCheck_Inverted ==
    /\ pc = "start"
    /\ found' = fs.exists
    /\ checks' = checks + 1
    /\ pc' = IF fs.exists THEN "import" ELSE "open"
    /\ UNCHANGED <<error, fs, lines, i, environ, inherited, reads, resp, helloBodies>>

\* line 5: if os.path.exists(secrets_file)
ExistsCheck ==
    /\ pc = "start"
    /\ found' = fs.exists
    /\ checks' = checks + 1
    /\ pc' = IF fs.exists THEN "open" ELSE "import"
    /\ UNCHANGED <<error, fs, lines, i, environ, inherited, reads, resp, helloBodies>>

\* line 6: with open(secrets_file) as f
OpenFile ==
    /\ pc = "open"
    /\ IF fs.exists
       THEN /\ lines' = fs.content
            /\ i' = 1
            /\ reads' = reads + 1
            /\ pc' = "reading"
            /\ UNCHANGED error
       ELSE /\ Crash("FileNotFoundError")
            /\ UNCHANGED <<lines, i, reads>>
    /\ UNCHANGED <<fs, found, environ, inherited, checks, resp, helloBodies>>

\* lines 7-10: one iteration of the for loop
ReadLine ==
    /\ pc = "reading"
    /\ i <= Len(lines)
    /\ LET line == lines[i]
           parts == ParseLine(line)
       IN  IF ~IsExportLine(line)
           THEN /\ i' = i + 1
                /\ UNCHANGED <<pc, error, environ>>
           ELSE IF Len(parts) # 2
           THEN /\ Crash("ValueError")
                /\ UNCHANGED <<i, environ>>
           ELSE IF ~putenv_ok(parts[1])
           THEN /\ Crash("OSError")
                /\ UNCHANGED <<i, environ>>
           ELSE /\ environ' = setitem(environ, parts[1], Unquote(parts[2]))
                /\ i' = i + 1
                /\ UNCHANGED <<pc, error>>
    /\ UNCHANGED <<fs, found, lines, inherited, checks, reads, resp, helloBodies>>

\* lines 7, 12-21: the loop ends, the file is closed, Flask is imported and the
\* routes are registered
EndOfFile ==
    /\ pc = "reading"
    /\ i > Len(lines)
    /\ pc' = "import"
    /\ UNCHANGED <<error, fs, found, lines, i, environ, inherited, checks, reads, resp, helloBodies>>

\* lines 23-24: app.run(host='0.0.0.0', port=8080); binding the port can fail
AppRun ==
    /\ pc = "import"
    /\ \E bound \in BOOLEAN :
         IF bound
         THEN pc' = "serving" /\ UNCHANGED error
         ELSE Crash("OSError")
    /\ UNCHANGED <<fs, found, lines, i, environ, inherited, checks, reads, resp, helloBodies>>

\* Variant: the handler loads the secrets file itself on every request.
Hello_Reload ==
    /\ pc = "serving"
    /\ reads' = IF fs.exists THEN reads + 1 ELSE reads
    /\ checks' = checks + 1
    /\ lines' = IF fs.exists THEN fs.content ELSE lines
    /\ resp' = [route |-> "/", status |-> 200, text |-> HelloBody(environ), json |-> {}]
    /\ helloBodies' = helloBodies \cup {HelloBody(environ)}
    /\ UNCHANGED <<pc, error, fs, found, i, environ, inherited>>

\* Variant: the handler stores the defaults it used back into os.environ.
Hello_StoresDefaults ==
    /\ pc = "serving"
    /\ resp' = [route |-> "/", status |-> 200, text |-> HelloBody(environ), json |-> {}]
    /\ helloBodies' = helloBodies \cup {HelloBody(environ)}
    /\ environ' = setitem(setitem(environ, ENV, getenv(environ, ENV, DEV)),
                          DB_PASSWORD, getenv(environ, DB_PASSWORD, NOT_SET))
    /\ UNCHANGED <<pc, error, fs, found, lines, i, inherited, checks, reads>>

\* lines 15-17: GET /
Hello ==
    /\ pc = "serving"
    /\ resp' = [route |-> "/", status |-> 200, text |-> HelloBody(environ), json |-> {}]
    /\ helloBodies' = helloBodies \cup {HelloBody(environ)}
    /\ UNCHANGED <<pc, error, fs, found, lines, i, environ, inherited, checks, reads>>

\* lines 19-21: GET /health
Health ==
    /\ pc = "serving"
    /\ resp' = HealthResponse
    /\ UNCHANGED <<pc, error, fs, found, lines, i, environ, inherited, checks, reads, helloBodies>>

\* a path no route is registered for: Flask's default not-found response
NotFound ==
    /\ pc = "serving"
    /\ resp' = [route |-> "/other", status |-> 404, text |-> <<>>, json |-> {}]
    /\ UNCHANGED <<pc, error, fs, found, lines, i, environ, inherited, checks, reads, helloBodies>>

\* The secret store rewrites or removes the file at any time.
RewriteFile ==
    /\ fs' \in Rewrites \ {fs}
    /\ UNCHANGED <<pc, error, found, lines, i, environ, inherited, checks, reads, resp, helloBodies>>

Next ==
    \/ ExistsCheck
    \/ OpenFile
    \/ ReadLine
    \/ EndOfFile
    \/ AppRun
    \/ Hello
    \/ Health
    \/ NotFound
    \/ RewriteFile

Spec == Init /\ [][Next]_vars

----------------------------------------------------------------------------
\* Vocabulary of the properties, written from the specification's wording and
\* independently of the operators above.

\* sub occurs in s
Contains(s, sub) ==
    \E k \in 0..(Len(s) - Len(sub)) : SubSeq(s, k + 1, k + Len(sub)) = sub

\* the line starts with the seven characters e x p o r t space
HasLiteralPrefix(line) ==
    /\ Len(line) >= 7
    /\ SubSeq(line, 1, 7) = <<"e", "x", "p", "o", "r", "t", " ">>

\* what follows the leading prefix
AfterPrefix(line) == SubSeq(line, 8, Len(line))

HasEquals(s) == \E k \in 1..Len(s) : s[k] = "="

FirstEquals(s) == CHOOSE k \in 1..Len(s) : s[k] = "=" /\ \A m \in 1..(k - 1) : s[m] # "="

\* s without the blanks, tabs and newlines at both ends
Trimmed(s) ==
    LET keep == { k \in 1..Len(s) : s[k] \notin {" ", "\t", "\n"} }
    IN  IF keep = {} THEN <<>>
        ELSE SubSeq(s, CHOOSE a \in keep : \A b \in keep : a <= b,
                       CHOOSE a \in keep : \A b \in keep : a >= b)

\* s without the double quotes at both ends
Unquoted(s) ==
    LET keep == { k \in 1..Len(s) : s[k] # "\"" }
    IN  IF keep = {} THEN <<>>
        ELSE SubSeq(s, CHOOSE a \in keep : \A b \in keep : a <= b,
                       CHOOSE a \in keep : \A b \in keep : a >= b)

\* The rule of the specification: remove the leading prefix only, split on the
\* first "=", trim key and value separately, then unquote the value.
RuleKey(line) ==
    LET rest == AfterPrefix(line) IN Trimmed(SubSeq(rest, 1, FirstEquals(rest) - 1))
RuleValue(line) ==
    LET rest == AfterPrefix(line)
    IN  Unquoted(Trimmed(SubSeq(rest, FirstEquals(rest) + 1, Len(rest))))

\* The lines the for loop has completed.
Processed == 1..(i - 1)

----------------------------------------------------------------------------
\* C1: whatever the environment and whatever the secrets file held, the response
\* to GET /health has status 200 and the body {"status": "ok"}, and a serving
\* process can always answer it.
C1_HealthAlwaysOk ==
    /\ resp.route = "/health" =>
         /\ resp.status = 200
         /\ resp.json = {<<"status", "ok">>}
         /\ resp.text = <<>>
    /\ pc = "serving" => ENABLED Health

\* C1 witness: /health answered while DB_PASSWORD is unset and ENV is set to
\* something the file wrote.
C1_Witness ==
    /\ resp.route = "/health"
    /\ DB_PASSWORD \notin DOMAIN environ
    /\ ENV \in DOMAIN environ
    /\ environ # inherited

\* C2: the body of GET / is "Hello from Flask! Environment: E | DB: D" with E the
\* current ENV or dev when unset and D the current DB_PASSWORD or not set when unset.
C2_HelloBody ==
    resp.route = "/" =>
      LET E == IF ENV \in DOMAIN environ THEN environ[ENV] ELSE <<"d", "e", "v">>
          D == IF DB_PASSWORD \in DOMAIN environ THEN environ[DB_PASSWORD]
               ELSE <<"n", "o", "t", " ", "s", "e", "t">>
      IN  /\ resp.status = 200
          /\ resp.text = HELLO_ENVIRONMENT \o E \o <<" ", "|", " ", "D", "B", ":", " ">> \o D
          /\ ENV \notin DOMAIN environ =>
               Contains(resp.text, <<"E", "n", "v", "i", "r", "o", "n", "m", "e", "n", "t", ":", " ", "d", "e", "v">>)
          /\ (ENV \in DOMAIN environ /\ environ[ENV] = <<"p", "r", "o", "d">>) =>
               Contains(resp.text, <<"E", "n", "v", "i", "r", "o", "n", "m", "e", "n", "t", ":", " ", "p", "r", "o", "d">>)

\* C2 witness: GET / answered with ENV set to the empty string and DB_PASSWORD unset.
C2_Witness ==
    /\ resp.route = "/"
    /\ ENV \in DOMAIN environ
    /\ environ[ENV] = <<>>
    /\ DB_PASSWORD \notin DOMAIN environ

\* C4 as stated: with no secrets file at the existence check, the bootstrap is a
\* no-op and the body of GET / contains "DB: not set".
C4_NoFileNotSet ==
    (checks = 1 /\ ~found) =>
      /\ environ = inherited
      /\ resp.route = "/" =>
           Contains(resp.text, <<"D", "B", ":", " ", "n", "o", "t", " ", "s", "e", "t">>)

\* C4 amended: with no secrets file at the existence check, the file is never
\* opened, no line is parsed, the environment stays as inherited, startup goes on
\* to the server, and the body of GET / contains "DB: " followed by the inherited
\* DB_PASSWORD, which is "DB: not set" when DB_PASSWORD was not inherited.
C4_NoFileNoOp ==
    (checks = 1 /\ ~found) =>
      /\ environ = inherited
      /\ reads = 0
      /\ lines = <<>>
      /\ pc \in {"import", "serving"} \/ (pc = "crashed" /\ error = "OSError")
      /\ resp.route = "/" =>
           /\ DB_PASSWORD \in DOMAIN inherited =>
                Contains(resp.text, <<"D", "B", ":", " ">> \o inherited[DB_PASSWORD])
           /\ DB_PASSWORD \notin DOMAIN inherited =>
                Contains(resp.text, <<"D", "B", ":", " ", "n", "o", "t", " ", "s", "e", "t">>)

\* C4 witness: no file was found, GET / was answered, DB_PASSWORD was not inherited.
C4_Witness ==
    /\ checks = 1
    /\ ~found
    /\ resp.route = "/"
    /\ DB_PASSWORD \notin DOMAIN inherited
    /\ ENV \in DOMAIN inherited

\* C5: a step taken while the for loop stands at a line that does not start with
\* the literal prefix leaves os.environ as it was and raises nothing; the loop
\* goes on to the next line.
C5_OtherLinesIgnored ==
    [][ (pc = "reading" /\ i <= Len(lines) /\ ~HasLiteralPrefix(lines[i])) =>
          /\ environ' = environ
          /\ pc' = "reading"
          /\ error' = "none"
          /\ i' \in {i, i + 1} ]_vars

\* C5 witness: the loop has passed a line where whitespace precedes export and a
\* line KEY="VALUE" without the prefix.
C5_Witness ==
    /\ pc = "reading"
    /\ i = 3
    /\ lines[1][1] = " "
    /\ Contains(lines[1], <<"e", "x", "p", "o", "r", "t", " ">>)
    /\ lines[2][1] = "D"
    /\ environ = inherited

\* C6: the existence check and the read of the file happen at most once each, both
\* before the first request is served; a serving process has run the check exactly
\* once and finished the loop; and no step of a serving process checks, opens or
\* reads the file again or changes what was read, whatever happens to the file.
C6_BootstrapOnce ==
    /\ [](/\ checks <= 1
          /\ reads <= 1
          /\ (pc = "serving" \/ resp # NoResponse) =>
               /\ pc = "serving"
               /\ checks = 1
               /\ reads = (IF found THEN 1 ELSE 0)
               /\ i = Len(lines) + 1)
    /\ [][ pc = "serving" =>
             /\ checks' = checks
             /\ reads' = reads
             /\ lines' = lines
             /\ i' = i
             /\ (fs' # fs => resp' = resp) ]_vars

\* C6 witness: GET / answered from the value read at startup although the file on
\* disk has since been replaced by one that sets another value.
C6_Witness ==
    /\ pc = "serving"
    /\ resp.route = "/"
    /\ reads = 1
    /\ fs.exists
    /\ fs.content # lines
    /\ Contains(fs.content[1], <<"n", "e", "w">>)
    /\ Contains(resp.text, <<"D", "B", ":", " ", "s", "e", "c", "r", "e", "t", "1", "2", "3">>)

\* The lines the loop has completed that wrote key k.
WritesOf(k) ==
    { j \in Processed : HasLiteralPrefix(lines[j]) /\ ParseLine(lines[j])[1] = k }

\* C8: at every point of the bootstrap and after it, each key written by a
\* completed export line holds the value of the last such line in file order,
\* whatever it held when inherited, and every other key is as inherited.
C8_LastWriteWins ==
    LET written == { ParseLine(lines[j])[1] : j \in { m \in Processed : HasLiteralPrefix(lines[m]) } }
    IN  \A k \in written \cup DOMAIN environ \cup DOMAIN inherited :
          LET W == WritesOf(k) IN
          IF W = {}
          THEN /\ (k \in DOMAIN environ) = (k \in DOMAIN inherited)
               /\ k \in DOMAIN environ => environ[k] = inherited[k]
          ELSE LET last == CHOOSE j \in W : \A m \in W : m <= j
               IN  /\ k \in DOMAIN environ
                   /\ environ[k] = Unquote(ParseLine(lines[last])[2])

\* C8 witness: bootstrap finished after two lines wrote different values to
\* DB_PASSWORD, which was inherited with a third value.
C8_Witness ==
    /\ pc = "import"
    /\ i = 3
    /\ WritesOf(DB_PASSWORD) = {1, 2}
    /\ DB_PASSWORD \in DOMAIN inherited
    /\ Unquote(ParseLine(lines[1])[2]) # Unquote(ParseLine(lines[2])[2])
    /\ inherited[DB_PASSWORD] # Unquote(ParseLine(lines[1])[2])
    /\ inherited[DB_PASSWORD] # environ[DB_PASSWORD]
    /\ ENV \in DOMAIN environ

\* the line starts with the literal prefix and has no "=" after it
Malformed(line) == HasLiteralPrefix(line) /\ ~HasEquals(AfterPrefix(line))

\* C9: when the file that was read holds a line with the prefix and no "=", the
\* loop never gets past that line, the process never reaches the server and no
\* request is answered; the error raised at that line is the unpacking ValueError.
C9_MalformedLineFatal ==
    \A j \in 1..Len(lines) :
      Malformed(lines[j]) =>
        /\ i <= j
        /\ pc \in {"reading", "crashed"}
        /\ resp = NoResponse
        /\ helloBodies = {}
        /\ (pc = "crashed" /\ i = j) => error = "ValueError"
        /\ pc = "crashed" => error \in {"ValueError", "OSError"}

\* C9 witness: the process crashed at a malformed second line after the first
\* line had been written to os.environ.
C9_Witness ==
    /\ pc = "crashed"
    /\ error = "ValueError"
    /\ i = 2
    /\ Malformed(lines[2])
    /\ environ # inherited

\* C10: GET / returns the same body every time within one process, and no step
\* of a serving process (a request to /, to /health or to an unknown path)
\* changes os.environ.
C10_ServingReadsOnly ==
    /\ [](Cardinality(helloBodies) <= 1)
    /\ [][ pc = "serving" => environ' = environ /\ pc' = "serving" ]_vars

\* C10 witness: after GET / was answered, an unknown path was requested, with
\* both defaults in use.
C10_Witness ==
    /\ pc = "serving"
    /\ Cardinality(helloBodies) = 1
    /\ resp.route = "/other"
    /\ resp.status = 404
    /\ environ = EmptyEnv

\* the line without its line terminator
Chomp(line) ==
    IF line # <<>> /\ line[Len(line)] = "\n" THEN SubSeq(line, 1, Len(line) - 1) ELSE line

\* the line reads export K="V": K is not empty and holds no blank, tab or quote,
\* V holds no quote
WellFormed(line) ==
    LET rest == AfterPrefix(Chomp(line))
        k == FirstEquals(rest)
    IN  /\ HasLiteralPrefix(Chomp(line))
        /\ HasEquals(rest)
        /\ k > 1
        /\ \A m \in 1..(k - 1) : rest[m] \notin {" ", "\t", "\""}
        /\ Len(rest) >= k + 2
        /\ rest[k + 1] = "\""
        /\ rest[Len(rest)] = "\""
        /\ \A m \in (k + 2)..(Len(rest) - 1) : rest[m] # "\""

WellFormedKey(line) ==
    LET rest == AfterPrefix(Chomp(line)) IN SubSeq(rest, 1, FirstEquals(rest) - 1)
WellFormedValue(line) ==
    LET rest == AfterPrefix(Chomp(line)) IN SubSeq(rest, FirstEquals(rest) + 2, Len(rest) - 1)

\* a line after line j names key k, by the rule of the specification or as parsed
Overridden(j, k) ==
    \E m \in (j + 1)..Len(lines) :
      /\ HasLiteralPrefix(lines[m])
      /\ HasEquals(AfterPrefix(lines[m]))
      /\ (RuleKey(lines[m]) = k \/ ParseLine(lines[m])[1] = k)

\* C3: once the bootstrap has completed, every well-formed line export K="V" of
\* the file read that no later line overrides has left K mapped to V, whatever K
\* was inherited as, and for K = DB_PASSWORD the body of GET / contains "DB: V".
C3_WellFormedLineLoaded ==
    (pc \in {"import", "serving"} /\ reads = 1) =>
      \A j \in 1..Len(lines) :
        (WellFormed(lines[j]) /\ ~Overridden(j, WellFormedKey(lines[j]))) =>
          /\ WellFormedKey(lines[j]) \in DOMAIN environ
          /\ environ[WellFormedKey(lines[j])] = WellFormedValue(lines[j])
          /\ (WellFormedKey(lines[j]) = DB_PASSWORD /\ resp.route = "/") =>
               Contains(resp.text, <<"D", "B", ":", " ">> \o WellFormedValue(lines[j]))

\* C7: the step the loop takes at a line that starts with the literal prefix and
\* holds an "=" (with a key that is not empty by the rule) sets exactly the pair
\* the rule of the specification computes, and raises nothing.
C7_RulePairIsSet ==
    [][ (/\ pc = "reading"
         /\ i <= Len(lines)
         /\ HasLiteralPrefix(lines[i])
         /\ HasEquals(AfterPrefix(lines[i]))
         /\ RuleKey(lines[i]) # <<>>
         /\ <<pc, i, environ>>' # <<pc, i, environ>>) =>
          /\ pc' = "reading"
          /\ i' = i + 1
          /\ environ' = (RuleKey(lines[i]) :> RuleValue(lines[i])) @@ environ ]_vars

====
